---- MODULE Spec2Model ----
(***************************************************************************)
(* Model of kapacitor/client.go: the Client that creates, updates,         *)
(* enables, disables, deletes and queries kapacitor tasks on behalf of     *)
(* chronograf alert rules.  The remote kapacitor engine is the `tasks'     *)
(* variable; every remote call is one atomic step on it and may fail.      *)
(* Update makes two remote calls and is therefore two steps, so that       *)
(* other callers can interleave between them.                              *)
(***************************************************************************)
EXTENDS Integers, Sequences, FiniteSets, TLC

\* ---------------------------------------------------------------- bounds
MaxUpdating == 2    \* Update invocations in progress at the same time
MaxOps == 2         \* invocations of Client methods in one behaviour

\* ------------------------------------------------------------- constants
Prefix == "chronograf-v1-"
HTTPEndpoint == "output"

\* tokens the ID generator can return
Tokens == {"a", "b"}

\* ID of a task written by another tool (it lacks Prefix)
ExternalID == "cpu_alert"
TaskIDs == {Prefix \o t : t \in Tokens} \cup {ExternalID}

\* error values
Nil == "nil"
ErrClient == "client.New failed"
ErrGenerateID == "ID.Generate failed"
ErrGenerateScript == "Ticker.Generate failed"
ErrEngine == "kapacitor error"
ErrAlertNotFound == "alert not found"

\* client.TaskStatus / client.TaskType labels; "" is the zero value (unset)
Enabled == "enabled"
Disabled == "disabled"
StreamTask == "stream"
BatchTask == "batch"

\* ------------------------------------------------------------------ data
QueryConfig(db, rp, raw) == [Database |-> db, RetentionPolicy |-> rp, RawText |-> raw]

AlertRule(id, name, q, trigger, script) ==
    [ID |-> id, Name |-> name, Query |-> q, Trigger |-> trigger, TICKScript |-> script]

\* chronograf.AlertRule{}
EmptyRule == AlertRule("", "", QueryConfig("", "", ""), "", "")

\* The rules callers pass in.  Trigger stands for the rule parameters the
\* client does not look at: "threshold" rules generate a script that
\* reverses, "custom" rules generate a script that does not, and a rule
\* with no trigger is rejected by the script generator.
Rules ==
    { AlertRule("", "cpu", QueryConfig("telegraf", "autogen", ""), "threshold", ""),
      AlertRule("", "cpu", QueryConfig("telegraf", "autogen", "SELECT 1"), "threshold", ""),
      AlertRule("", "mem", QueryConfig("mydb", "weekly", ""), "custom", ""),
      AlertRule("", "bad", QueryConfig("telegraf", "autogen", ""), "", "") }

Task(id, href, hrefOutput, rule, script) ==
    [ID |-> id, Href |-> href, HrefOutput |-> hrefOutput, Rule |-> rule, TICKScript |-> script]

\* a nil *Task
NoTask == Task("", "", "", EmptyRule, "")

Href(ID) == "/kapacitor/v1/tasks/" \o ID

HrefOutput(ID) == "/kapacitor/v1/tasks/" \o ID \o "/" \o HTTPEndpoint

Hrefs == {Href(id) : id \in TaskIDs}

\* toTask that classifies every rule as a streaming task
toTask_AlwaysStream(q) == StreamTask

toTask(q) == IF q.RawText = "" THEN StreamTask ELSE BatchTask

\* ------------------------------------------------- script translation
\* Ticker.Generate: rule -> script text, or an error
GenerateOK(rule) == rule.Trigger # ""

Generate(rule) ==
    "alert " \o rule.Name \o " on " \o rule.Query.Database \o "." \o rule.Query.RetentionPolicy
        \o " [" \o rule.Query.RawText \o "] " \o rule.Trigger

\* Reverse: script text -> rule, or an error when the script does not have
\* the shape of a generated threshold rule
ReverseOK(script) ==
    \E r \in Rules : GenerateOK(r) /\ r.Trigger = "threshold" /\ Generate(r) = script

Reverse(script) ==
    CHOOSE r \in Rules : GenerateOK(r) /\ r.Trigger = "threshold" /\ Generate(r) = script

\* ------------------------------------------------------- remote engine
DBRP(db, rp) == [Database |-> db, RetentionPolicy |-> rp]

KapaTask(id, type, dbrps, script, status) ==
    [ID |-> id, Type |-> type, DBRPs |-> dbrps, TICKscript |-> script, Status |-> status]

NoKapaTask == KapaTask("", "", <<>>, "", "")

ExternalScript == "stream|from().measurement('cpu')"

ExternalTask(status) ==
    KapaTask(ExternalID, StreamTask, <<DBRP("other", "default")>>, ExternalScript, status)

Exists(ts, href) == \E id \in DOMAIN ts : Href(id) = href

Lookup(ts, href) == ts[CHOOSE id \in DOMAIN ts : Href(id) = href]

Reply(err, task, ts) == [err |-> err, task |-> task, tasks |-> ts]

\* POST /tasks
CreateTask(ts, opts, net) ==
    IF ~net \/ opts.ID \in DOMAIN ts
    THEN Reply(ErrEngine, NoKapaTask, ts)
    ELSE LET t == KapaTask(opts.ID, opts.Type, opts.DBRPs, opts.TICKscript, opts.Status)
         IN  Reply(Nil, t, [id \in DOMAIN ts \cup {opts.ID} |-> IF id = opts.ID THEN t ELSE ts[id]])

\* PATCH /tasks/<id>: only the fields that are set in opts are replaced
UpdateTask(ts, href, opts, net) ==
    IF ~net \/ ~Exists(ts, href)
    THEN Reply(ErrEngine, NoKapaTask, ts)
    ELSE LET old == Lookup(ts, href)
             t == KapaTask(old.ID,
                           IF opts.Type = "" THEN old.Type ELSE opts.Type,
                           IF opts.DBRPs = <<>> THEN old.DBRPs ELSE opts.DBRPs,
                           IF opts.TICKscript = "" THEN old.TICKscript ELSE opts.TICKscript,
                           IF opts.Status = "" THEN old.Status ELSE opts.Status)
         IN  Reply(Nil, t, [ts EXCEPT ![old.ID] = t])

\* DELETE /tasks/<id>
DeleteTask(ts, href, net) ==
    IF ~net \/ ~Exists(ts, href)
    THEN Reply(ErrEngine, NoKapaTask, ts)
    ELSE LET old == Lookup(ts, href)
         IN  Reply(Nil, NoKapaTask, [id \in DOMAIN ts \ {old.ID} |-> ts[id]])

\* GET /tasks/<id>
GetTask(ts, href, net) ==
    IF ~net \/ ~Exists(ts, href)
    THEN Reply(ErrEngine, NoKapaTask, ts)
    ELSE Reply(Nil, Lookup(ts, href), ts)

\* GET /tasks?fields=...: ID is always returned, the other fields only
\* when no projection is asked for or the projection names them
ListTasks(ts, fields, net) ==
    IF ~net
    THEN [err |-> ErrEngine, list |-> [id \in {} |-> NoKapaTask], tasks |-> ts]
    ELSE LET has(f) == fields = <<>> \/ \E i \in 1..Len(fields) : fields[i] = f
             proj(t) == KapaTask(t.ID,
                                 IF has("type") THEN t.Type ELSE "",
                                 IF has("dbrps") THEN t.DBRPs ELSE <<>>,
                                 IF has("script") THEN t.TICKscript ELSE "",
                                 IF has("status") THEN t.Status ELSE "")
         IN  [err |-> Nil, list |-> [id \in DOMAIN ts |-> proj(ts[id])], tasks |-> ts]

\* Link.Href of a task in an engine reply
Link(t) == "/kapacitor/v1/tasks/" \o t.ID

CreateTaskOptions(id, type, dbrps, script, status) ==
    [ID |-> id, Type |-> type, DBRPs |-> dbrps, TICKscript |-> script, Status |-> status]

UpdateTaskOptions(type, dbrps, script, status) ==
    [Type |-> type, DBRPs |-> dbrps, TICKscript |-> script, Status |-> status]

ListTasksOptions(fields) == [Fields |-> fields]

NilOptions == [Fields |-> <<"nil">>]

\* one remote call, as logged by the invocation that issued it
Call(name, target, opts, ok) == [call |-> name, target |-> target, opts |-> opts, ok |-> ok]

\* ------------------------------------------------------- Client methods
\* A Client value; only URL decides anything here (client.New rejects a
\* URL that does not parse).
Clients == {[URL |-> "http://kapacitor:9092"], [URL |-> "://bad"]}

kapaClientOK(c) == c.URL # "://bad"

\* whether the engine answers a remote call; without a client no call is made
\* and there is nothing to choose
NetOutcomes(c) == IF kapaClientOK(c) THEN BOOLEAN ELSE {TRUE}

\* outcomes of c.ID.Generate()
IDResults == {[id |-> t, err |-> Nil] : t \in Tokens} \cup {[id |-> "", err |-> ErrGenerateID]}

\* no call of the ID generator
NoID == [id |-> "", err |-> Nil]

NoAlerts == [id \in {} |-> EmptyRule]
NoStatuses == [id \in {} |-> ""]

\* What a method hands back: its return values, the remote calls it
\* issued, and the engine state it leaves behind.
Result(err, task, rule, status, alerts, statuses, calls, ts) ==
    [err |-> err, task |-> task, rule |-> rule, status |-> status, alerts |-> alerts,
     statuses |-> statuses, calls |-> calls, tasks |-> ts]

TaskResult(err, task, calls, ts) ==
    Result(err, task, EmptyRule, "", NoAlerts, NoStatuses, calls, ts)

\* CreateOp that uses the generated token as the task ID, without Prefix
CreateOp_NoPrefix(ts, c, rule, gen, net) ==
    IF ~kapaClientOK(c) THEN TaskResult(ErrClient, NoTask, <<>>, ts)
    ELSE IF gen.err # Nil THEN TaskResult(gen.err, NoTask, <<>>, ts)
    ELSE IF ~GenerateOK(rule) THEN TaskResult(ErrGenerateScript, NoTask, <<>>, ts)
    ELSE LET script == Generate(rule)
             kapaID == gen.id
             rule2 == [rule EXCEPT !.ID = kapaID]
             opts == CreateTaskOptions(kapaID, toTask(rule2.Query),
                        <<DBRP(rule2.Query.Database, rule2.Query.RetentionPolicy)>>,
                        script, Enabled)
             rep == CreateTask(ts, opts, net)
             calls == <<Call("CreateTask", kapaID, opts, rep.err = Nil)>>
         IN  IF rep.err # Nil
             THEN TaskResult(rep.err, NoTask, calls, rep.tasks)
             ELSE TaskResult(Nil, Task(kapaID, Link(rep.task), HrefOutput(kapaID), rule2, script),
                             calls, rep.tasks)

CreateOp(ts, c, rule, gen, net) ==
    IF ~kapaClientOK(c) THEN TaskResult(ErrClient, NoTask, <<>>, ts)
    ELSE IF gen.err # Nil THEN TaskResult(gen.err, NoTask, <<>>, ts)
    ELSE IF ~GenerateOK(rule) THEN TaskResult(ErrGenerateScript, NoTask, <<>>, ts)
    ELSE LET script == Generate(rule)
             kapaID == Prefix \o gen.id
             rule2 == [rule EXCEPT !.ID = kapaID]
             opts == CreateTaskOptions(kapaID, toTask(rule2.Query),
                        <<DBRP(rule2.Query.Database, rule2.Query.RetentionPolicy)>>,
                        script, Enabled)
             rep == CreateTask(ts, opts, net)
             calls == <<Call("CreateTask", kapaID, opts, rep.err = Nil)>>
         IN  IF rep.err # Nil
             THEN TaskResult(rep.err, NoTask, calls, rep.tasks)
             ELSE TaskResult(Nil, Task(kapaID, Link(rep.task), HrefOutput(kapaID), rule2, script),
                             calls, rep.tasks)

\* DeleteOp whose success empties the engine
DeleteOp_RemovesAll(ts, c, href, net) ==
    IF ~kapaClientOK(c) THEN TaskResult(ErrClient, NoTask, <<>>, ts)
    ELSE LET rep == DeleteTask(ts, href, net)
         IN  TaskResult(rep.err, NoTask, <<Call("DeleteTask", href, NilOptions, rep.err = Nil)>>,
                        IF rep.err = Nil THEN [id \in {} |-> NoKapaTask] ELSE rep.tasks)

\* DeleteOp that reports success whatever the engine answers
DeleteOp_SwallowsError(ts, c, href, net) ==
    IF ~kapaClientOK(c) THEN TaskResult(ErrClient, NoTask, <<>>, ts)
    ELSE LET rep == DeleteTask(ts, href, net)
         IN  TaskResult(Nil, NoTask, <<Call("DeleteTask", href, NilOptions, rep.err = Nil)>>,
                        rep.tasks)

DeleteOp(ts, c, href, net) ==
    IF ~kapaClientOK(c) THEN TaskResult(ErrClient, NoTask, <<>>, ts)
    ELSE LET rep == DeleteTask(ts, href, net)
         IN  TaskResult(rep.err, NoTask, <<Call("DeleteTask", href, NilOptions, rep.err = Nil)>>,
                        rep.tasks)

\* updateStatus whose update reaches every task of the engine
updateStatus_EveryTask(ts, c, href, status, net) ==
    IF ~kapaClientOK(c) THEN TaskResult(ErrClient, NoTask, <<>>, ts)
    ELSE LET opts == UpdateTaskOptions("", <<>>, "", status)
             rep == UpdateTask(ts, href, opts, net)
             calls == <<Call("UpdateTask", href, opts, rep.err = Nil)>>
         IN  IF rep.err # Nil
             THEN TaskResult(rep.err, NoTask, calls, rep.tasks)
             ELSE TaskResult(Nil, Task(rep.task.ID, Link(rep.task), HrefOutput(rep.task.ID),
                                       EmptyRule, rep.task.TICKscript),
                             calls,
                             [id \in DOMAIN rep.tasks |-> [rep.tasks[id] EXCEPT !.Status = status]])

\* updateStatus that sends its update a second time when the first fails
updateStatus_Retries(ts, c, href, status, net) ==
    IF ~kapaClientOK(c) THEN TaskResult(ErrClient, NoTask, <<>>, ts)
    ELSE LET opts == UpdateTaskOptions("", <<>>, "", status)
             first == UpdateTask(ts, href, opts, net)
             rep == IF first.err # Nil THEN UpdateTask(ts, href, opts, TRUE) ELSE first
             calls == IF first.err # Nil
                      THEN <<Call("UpdateTask", href, opts, FALSE),
                             Call("UpdateTask", href, opts, rep.err = Nil)>>
                      ELSE <<Call("UpdateTask", href, opts, TRUE)>>
         IN  IF rep.err # Nil
             THEN TaskResult(rep.err, NoTask, calls, rep.tasks)
             ELSE TaskResult(Nil, Task(rep.task.ID, Link(rep.task), HrefOutput(rep.task.ID),
                                       EmptyRule, rep.task.TICKscript),
                             calls, rep.tasks)

\* updateStatus that also sends a task type with the status
updateStatus_SendsType(ts, c, href, status, net) ==
    IF ~kapaClientOK(c) THEN TaskResult(ErrClient, NoTask, <<>>, ts)
    ELSE LET opts == UpdateTaskOptions(StreamTask, <<>>, "", status)
             rep == UpdateTask(ts, href, opts, net)
             calls == <<Call("UpdateTask", href, opts, rep.err = Nil)>>
         IN  IF rep.err # Nil
             THEN TaskResult(rep.err, NoTask, calls, rep.tasks)
             ELSE TaskResult(Nil, Task(rep.task.ID, Link(rep.task), HrefOutput(rep.task.ID),
                                       EmptyRule, rep.task.TICKscript),
                             calls, rep.tasks)

updateStatus(ts, c, href, status, net) ==
    IF ~kapaClientOK(c) THEN TaskResult(ErrClient, NoTask, <<>>, ts)
    ELSE LET opts == UpdateTaskOptions("", <<>>, "", status)
             rep == UpdateTask(ts, href, opts, net)
             calls == <<Call("UpdateTask", href, opts, rep.err = Nil)>>
         IN  IF rep.err # Nil
             THEN TaskResult(rep.err, NoTask, calls, rep.tasks)
             ELSE TaskResult(Nil, Task(rep.task.ID, Link(rep.task), HrefOutput(rep.task.ID),
                                       EmptyRule, rep.task.TICKscript),
                             calls, rep.tasks)

DisableOp(ts, c, href, net) == updateStatus(ts, c, href, Disabled, net)

EnableOp(ts, c, href, net) == updateStatus(ts, c, href, Enabled, net)

\* AllStatusOp that lists the tasks without a field projection
AllStatusOp_NoProjection(ts, c, net) ==
    IF ~kapaClientOK(c)
    THEN Result(ErrClient, NoTask, EmptyRule, "", NoAlerts, NoStatuses, <<>>, ts)
    ELSE LET opts == ListTasksOptions(<<>>)
             rep == ListTasks(ts, opts.Fields, net)
             calls == <<Call("ListTasks", "", opts, rep.err = Nil)>>
         IN  IF rep.err # Nil
             THEN Result(rep.err, NoTask, EmptyRule, "", NoAlerts, NoStatuses, calls, rep.tasks)
             ELSE Result(Nil, NoTask, EmptyRule, "", NoAlerts,
                         [id \in {rep.list[k].ID : k \in DOMAIN rep.list} |->
                             (CHOOSE t \in {rep.list[k] : k \in DOMAIN rep.list} : t.ID = id).Status],
                         calls, rep.tasks)

AllStatusOp(ts, c, net) ==
    IF ~kapaClientOK(c)
    THEN Result(ErrClient, NoTask, EmptyRule, "", NoAlerts, NoStatuses, <<>>, ts)
    ELSE LET opts == ListTasksOptions(<<"status">>)
             rep == ListTasks(ts, opts.Fields, net)
             calls == <<Call("ListTasks", "", opts, rep.err = Nil)>>
         IN  IF rep.err # Nil
             THEN Result(rep.err, NoTask, EmptyRule, "", NoAlerts, NoStatuses, calls, rep.tasks)
             ELSE Result(Nil, NoTask, EmptyRule, "", NoAlerts,
                         [id \in {rep.list[k].ID : k \in DOMAIN rep.list} |->
                             (CHOOSE t \in {rep.list[k] : k \in DOMAIN rep.list} : t.ID = id).Status],
                         calls, rep.tasks)

\* StatusOp that returns the wrong field of the fetched task
StatusOp_ReturnsType(ts, c, href, net) ==
    IF ~kapaClientOK(c)
    THEN Result(ErrClient, NoTask, EmptyRule, "", NoAlerts, NoStatuses, <<>>, ts)
    ELSE LET rep == GetTask(ts, href, net)
             calls == <<Call("Task", href, NilOptions, rep.err = Nil)>>
         IN  IF rep.err # Nil
             THEN Result(rep.err, NoTask, EmptyRule, "", NoAlerts, NoStatuses, calls, rep.tasks)
             ELSE Result(Nil, NoTask, EmptyRule, rep.task.Type, NoAlerts, NoStatuses, calls,
                         rep.tasks)

StatusOp(ts, c, href, net) ==
    IF ~kapaClientOK(c)
    THEN Result(ErrClient, NoTask, EmptyRule, "", NoAlerts, NoStatuses, <<>>, ts)
    ELSE LET rep == GetTask(ts, href, net)
             calls == <<Call("Task", href, NilOptions, rep.err = Nil)>>
         IN  IF rep.err # Nil
             THEN Result(rep.err, NoTask, EmptyRule, "", NoAlerts, NoStatuses, calls, rep.tasks)
             ELSE Result(Nil, NoTask, EmptyRule, rep.task.Status, NoAlerts, NoStatuses, calls,
                         rep.tasks)

\* the rule All and Get build from one fetched task
\* AllEntry whose degraded rule has no Name
AllEntry_DegradesWithoutName(task) ==
    LET script == task.TICKscript
    IN  IF ~ReverseOK(script)
        THEN [EmptyRule EXCEPT !.ID = task.ID, !.TICKScript = script]
        ELSE [Reverse(script) EXCEPT !.ID = task.ID, !.TICKScript = script]

AllEntry(task) ==
    LET script == task.TICKscript
    IN  IF ~ReverseOK(script)
        THEN [EmptyRule EXCEPT !.ID = task.ID, !.Name = task.ID, !.TICKScript = script]
        ELSE [Reverse(script) EXCEPT !.ID = task.ID, !.TICKScript = script]

\* AllOp that leaves out the tasks whose script does not reverse
AllOp_SkipsUnparsed(ts, c, net) ==
    IF ~kapaClientOK(c)
    THEN Result(ErrClient, NoTask, EmptyRule, "", NoAlerts, NoStatuses, <<>>, ts)
    ELSE LET opts == ListTasksOptions(<<>>)
             rep == ListTasks(ts, opts.Fields, net)
             calls == <<Call("ListTasks", "", opts, rep.err = Nil)>>
         IN  IF rep.err # Nil
             THEN Result(rep.err, NoTask, EmptyRule, "", NoAlerts, NoStatuses, calls, rep.tasks)
             ELSE Result(Nil, NoTask, EmptyRule, "",
                         [id \in {rep.list[k].ID : k \in {j \in DOMAIN rep.list :
                                                            ReverseOK(rep.list[j].TICKscript)}} |->
                             AllEntry(CHOOSE t \in {rep.list[k] : k \in DOMAIN rep.list} : t.ID = id)],
                         NoStatuses, calls, rep.tasks)

AllOp(ts, c, net) ==
    IF ~kapaClientOK(c)
    THEN Result(ErrClient, NoTask, EmptyRule, "", NoAlerts, NoStatuses, <<>>, ts)
    ELSE LET opts == ListTasksOptions(<<>>)
             rep == ListTasks(ts, opts.Fields, net)
             calls == <<Call("ListTasks", "", opts, rep.err = Nil)>>
         IN  IF rep.err # Nil
             THEN Result(rep.err, NoTask, EmptyRule, "", NoAlerts, NoStatuses, calls, rep.tasks)
             ELSE Result(Nil, NoTask, EmptyRule, "",
                         [id \in {rep.list[k].ID : k \in DOMAIN rep.list} |->
                             AllEntry(CHOOSE t \in {rep.list[k] : k \in DOMAIN rep.list} : t.ID = id)],
                         NoStatuses, calls, rep.tasks)

\* GetOp that leaves the ID of a reversed rule as Reverse returned it
GetOp_KeepsReversedID(ts, c, id, net) ==
    IF ~kapaClientOK(c)
    THEN Result(ErrClient, NoTask, EmptyRule, "", NoAlerts, NoStatuses, <<>>, ts)
    ELSE LET href == Href(id)
             rep == GetTask(ts, href, net)
             calls == <<Call("Task", href, NilOptions, rep.err = Nil)>>
         IN  IF rep.err # Nil
             THEN Result(ErrAlertNotFound, NoTask, EmptyRule, "", NoAlerts, NoStatuses, calls,
                         rep.tasks)
             ELSE LET script == rep.task.TICKscript
                  IN  IF ~ReverseOK(script)
                      THEN Result(Nil, NoTask,
                                  [EmptyRule EXCEPT !.ID = rep.task.ID, !.Name = rep.task.ID,
                                                    !.TICKScript = script],
                                  "", NoAlerts, NoStatuses, calls, rep.tasks)
                      ELSE Result(Nil, NoTask, [Reverse(script) EXCEPT !.TICKScript = script],
                                  "", NoAlerts, NoStatuses, calls, rep.tasks)

\* GetOp that returns the error of Reverse
GetOp_ReverseFails(ts, c, id, net) ==
    IF ~kapaClientOK(c)
    THEN Result(ErrClient, NoTask, EmptyRule, "", NoAlerts, NoStatuses, <<>>, ts)
    ELSE LET href == Href(id)
             rep == GetTask(ts, href, net)
             calls == <<Call("Task", href, NilOptions, rep.err = Nil)>>
         IN  IF rep.err # Nil
             THEN Result(ErrAlertNotFound, NoTask, EmptyRule, "", NoAlerts, NoStatuses, calls,
                         rep.tasks)
             ELSE LET script == rep.task.TICKscript
                  IN  IF ~ReverseOK(script)
                      THEN Result("Reverse failed", NoTask, EmptyRule,
                                  "", NoAlerts, NoStatuses, calls, rep.tasks)
                      ELSE Result(Nil, NoTask,
                                  [Reverse(script) EXCEPT !.ID = rep.task.ID, !.TICKScript = script],
                                  "", NoAlerts, NoStatuses, calls, rep.tasks)

\* GetOp that treats a failed fetch like a failed Reverse
GetOp_DegradesOnFetchError(ts, c, id, net) ==
    IF ~kapaClientOK(c)
    THEN Result(ErrClient, NoTask, EmptyRule, "", NoAlerts, NoStatuses, <<>>, ts)
    ELSE LET href == Href(id)
             rep == GetTask(ts, href, net)
             calls == <<Call("Task", href, NilOptions, rep.err = Nil)>>
             script == rep.task.TICKscript
         IN  IF rep.err # Nil \/ ~ReverseOK(script)
             THEN Result(Nil, NoTask,
                         [EmptyRule EXCEPT !.ID = id, !.Name = id, !.TICKScript = script],
                         "", NoAlerts, NoStatuses, calls, rep.tasks)
             ELSE Result(Nil, NoTask,
                         [Reverse(script) EXCEPT !.ID = rep.task.ID, !.TICKScript = script],
                         "", NoAlerts, NoStatuses, calls, rep.tasks)

GetOp(ts, c, id, net) ==
    IF ~kapaClientOK(c)
    THEN Result(ErrClient, NoTask, EmptyRule, "", NoAlerts, NoStatuses, <<>>, ts)
    ELSE LET href == Href(id)
             rep == GetTask(ts, href, net)
             calls == <<Call("Task", href, NilOptions, rep.err = Nil)>>
         IN  IF rep.err # Nil
             THEN Result(ErrAlertNotFound, NoTask, EmptyRule, "", NoAlerts, NoStatuses, calls,
                         rep.tasks)
             ELSE LET script == rep.task.TICKscript
                  IN  IF ~ReverseOK(script)
                      THEN Result(Nil, NoTask,
                                  [EmptyRule EXCEPT !.ID = rep.task.ID, !.Name = rep.task.ID,
                                                    !.TICKScript = script],
                                  "", NoAlerts, NoStatuses, calls, rep.tasks)
                      ELSE Result(Nil, NoTask,
                                  [Reverse(script) EXCEPT !.ID = rep.task.ID, !.TICKScript = script],
                                  "", NoAlerts, NoStatuses, calls, rep.tasks)

\* UpdateApplyOp with a first call that does not force the task to disabled
UpdateApplyOp_StatusUnset(ts, c, href, rule, net) ==
    IF ~kapaClientOK(c)
    THEN [pending |-> FALSE, script |-> "", reply |-> NoKapaTask,
          res |-> TaskResult(ErrClient, NoTask, <<>>, ts)]
    ELSE IF ~GenerateOK(rule)
    THEN [pending |-> FALSE, script |-> "", reply |-> NoKapaTask,
          res |-> TaskResult(ErrGenerateScript, NoTask, <<>>, ts)]
    ELSE LET script == Generate(rule)
             opts == UpdateTaskOptions(toTask(rule.Query),
                        <<DBRP(rule.Query.Database, rule.Query.RetentionPolicy)>>,
                        script, "")
             rep == UpdateTask(ts, href, opts, net)
             calls == <<Call("UpdateTask", href, opts, rep.err = Nil)>>
         IN  IF rep.err # Nil
             THEN [pending |-> FALSE, script |-> script, reply |-> NoKapaTask,
                   res |-> TaskResult(rep.err, NoTask, calls, rep.tasks)]
             ELSE [pending |-> TRUE, script |-> script, reply |-> rep.task,
                   res |-> TaskResult(Nil, NoTask, calls, rep.tasks)]

\* UpdateApplyOp that goes on to Enable although its first call failed
UpdateApplyOp_IgnoresError(ts, c, href, rule, net) ==
    IF ~kapaClientOK(c)
    THEN [pending |-> FALSE, script |-> "", reply |-> NoKapaTask,
          res |-> TaskResult(ErrClient, NoTask, <<>>, ts)]
    ELSE IF ~GenerateOK(rule)
    THEN [pending |-> FALSE, script |-> "", reply |-> NoKapaTask,
          res |-> TaskResult(ErrGenerateScript, NoTask, <<>>, ts)]
    ELSE LET script == Generate(rule)
             opts == UpdateTaskOptions(toTask(rule.Query),
                        <<DBRP(rule.Query.Database, rule.Query.RetentionPolicy)>>,
                        script, Disabled)
             rep == UpdateTask(ts, href, opts, net)
             calls == <<Call("UpdateTask", href, opts, rep.err = Nil)>>
         IN  [pending |-> TRUE, script |-> script, reply |-> rep.task,
              res |-> TaskResult(Nil, NoTask, calls, rep.tasks)]

\* UpdateApplyOp that sends its remote call before it looks at the error of
\* the script generator
UpdateApplyOp_GenerateLate(ts, c, href, rule, net) ==
    IF ~kapaClientOK(c)
    THEN [pending |-> FALSE, script |-> "", reply |-> NoKapaTask,
          res |-> TaskResult(ErrClient, NoTask, <<>>, ts)]
    ELSE LET script == Generate(rule)
             opts == UpdateTaskOptions(toTask(rule.Query),
                        <<DBRP(rule.Query.Database, rule.Query.RetentionPolicy)>>,
                        script, Disabled)
             rep == UpdateTask(ts, href, opts, net)
             calls == <<Call("UpdateTask", href, opts, rep.err = Nil)>>
         IN  IF ~GenerateOK(rule)
             THEN [pending |-> FALSE, script |-> "", reply |-> NoKapaTask,
                   res |-> TaskResult(ErrGenerateScript, NoTask, calls, rep.tasks)]
             ELSE IF rep.err # Nil
             THEN [pending |-> FALSE, script |-> script, reply |-> NoKapaTask,
                   res |-> TaskResult(rep.err, NoTask, calls, rep.tasks)]
             ELSE [pending |-> TRUE, script |-> script, reply |-> rep.task,
                   res |-> TaskResult(Nil, NoTask, calls, rep.tasks)]

\* Update up to and including its first remote call.  `pending' says the
\* method has not returned: the Enable call is still to come.
UpdateApplyOp(ts, c, href, rule, net) ==
    IF ~kapaClientOK(c)
    THEN [pending |-> FALSE, script |-> "", reply |-> NoKapaTask,
          res |-> TaskResult(ErrClient, NoTask, <<>>, ts)]
    ELSE IF ~GenerateOK(rule)
    THEN [pending |-> FALSE, script |-> "", reply |-> NoKapaTask,
          res |-> TaskResult(ErrGenerateScript, NoTask, <<>>, ts)]
    ELSE LET script == Generate(rule)
             opts == UpdateTaskOptions(toTask(rule.Query),
                        <<DBRP(rule.Query.Database, rule.Query.RetentionPolicy)>>,
                        script, Disabled)
             rep == UpdateTask(ts, href, opts, net)
             calls == <<Call("UpdateTask", href, opts, rep.err = Nil)>>
         IN  IF rep.err # Nil
             THEN [pending |-> FALSE, script |-> script, reply |-> NoKapaTask,
                   res |-> TaskResult(rep.err, NoTask, calls, rep.tasks)]
             ELSE [pending |-> TRUE, script |-> script, reply |-> rep.task,
                   res |-> TaskResult(Nil, NoTask, calls, rep.tasks)]

\* UpdateEnableOp that returns the Task without the generated script
UpdateEnableOp_DropsScript(ts, c, href, rule, script, task, calls, net) ==
    LET en == EnableOp(ts, c, href, net)
    IN  IF en.err # Nil
        THEN TaskResult(en.err, NoTask, calls \o en.calls, en.tasks)
        ELSE TaskResult(Nil, Task(task.ID, Link(task), HrefOutput(task.ID), rule, ""),
                        calls \o en.calls, en.tasks)

\* UpdateEnableOp whose second call sets the status to disabled
UpdateEnableOp_SendsDisable(ts, c, href, rule, script, task, calls, net) ==
    LET en == DisableOp(ts, c, href, net)
    IN  IF en.err # Nil
        THEN TaskResult(en.err, NoTask, calls \o en.calls, en.tasks)
        ELSE TaskResult(Nil, Task(task.ID, Link(task), HrefOutput(task.ID), rule, script),
                        calls \o en.calls, en.tasks)

\* UpdateEnableOp that returns without sending the Enable call
UpdateEnableOp_NoEnable(ts, c, href, rule, script, task, calls, net) ==
    TaskResult(Nil, Task(task.ID, Link(task), HrefOutput(task.ID), rule, script), calls, ts)

\* The rest of Update: the Enable call and the return.
UpdateEnableOp(ts, c, href, rule, script, task, calls, net) ==
    LET en == EnableOp(ts, c, href, net)
    IN  IF en.err # Nil
        THEN TaskResult(en.err, NoTask, calls \o en.calls, en.tasks)
        ELSE TaskResult(Nil, Task(task.ID, Link(task), HrefOutput(task.ID), rule, script),
                        calls \o en.calls, en.tasks)

\* ------------------------------------------------------------ the system
VARIABLES
    tasks,      \* the engine: task ID -> task, for the tasks that exist
    updating,   \* the Update invocations that are between their two remote calls
    ret,        \* what the step just taken returned to its caller, if it returned
    created,    \* the identifiers successful Creates returned, less those deleted since
    deleted,    \* the identifiers successful Deletes removed, less those created again
    lastSet,    \* per task: the status its most recent successful method call set
    nops        \* invocations started so far

vars == <<tasks, updating, ret, created, deleted, lastSet, nops>>

\* the record of a returned invocation
Return(op, c, arg, gen, rule, dirty, before, res) ==
    [op |-> op, c |-> c, arg |-> arg, gen |-> gen, in |-> rule, dirty |-> dirty,
     before |-> before, between |-> {},
     err |-> res.err, task |-> res.task, rule |-> res.rule, status |-> res.status,
     alerts |-> res.alerts, statuses |-> res.statuses, calls |-> res.calls]

\* no invocation returned in the step just taken
NoReturn ==
    Return("none", [URL |-> ""], "", NoID, EmptyRule, FALSE, NoKapaTask,
           Result(Nil, NoTask, EmptyRule, "", NoAlerts, NoStatuses, <<>>, <<>>))

\* The engine as a new Client finds it: an externally-authored task, alone
\* or next to a task an earlier chronograf session created.
EarlierTask ==
    LET rule == AlertRule("", "cpu", QueryConfig("telegraf", "autogen", ""), "threshold", "")
    IN  KapaTask(Prefix \o "a", toTask(rule.Query),
                 <<DBRP(rule.Query.Database, rule.Query.RetentionPolicy)>>, Generate(rule), Enabled)

InitialEngines ==
    { [id \in {ExternalID} |-> ExternalTask(Enabled)],
      [id \in {ExternalID, EarlierTask.ID} |->
          IF id = ExternalID THEN ExternalTask(Enabled) ELSE EarlierTask] }

\* What is known of a task's status from the methods that returned: `set'
\* is the status the most recent successful Create, Enable, Disable or
\* Update left, `half' says an Update has since failed in its Enable call
\* after its first call succeeded, and `raced' says methods overlapped on
\* the task since.
Settled(status) == [set |-> status, half |-> FALSE, raced |-> FALSE]

Init ==
    /\ tasks \in InitialEngines
    /\ updating = {}
    /\ ret = NoReturn
    /\ created = {}
    /\ deleted = {}
    /\ lastSet = [id \in DOMAIN tasks \ {ExternalID} |-> Settled(Enabled)]
    /\ nops = 0

\* the task a reference names as the invocation finds it, NoKapaTask if none
Before(href) == IF Exists(tasks, href) THEN Lookup(tasks, href) ELSE NoKapaTask

\* the created identifiers after an invocation returned res
Created(op, arg, res) ==
    IF op = "Create" /\ res.err = Nil THEN created \cup {res.task.ID}
    ELSE IF op = "Delete" /\ res.err = Nil THEN {id \in created : Href(id) # arg}
    ELSE created

\* the deleted identifiers after an invocation returned res
Deleted(op, href, res) ==
    IF op = "Delete" /\ res.err = Nil THEN deleted \cup {Before(href).ID}
    ELSE IF op = "Create" /\ res.err = Nil THEN deleted \ {res.task.ID}
    ELSE deleted

\* lastSet after a one-call method returned res
LastSet(op, href, res) ==
    LET overlap == \E u \in updating : u.href = href
        own == IF Exists(res.tasks, href) THEN Lookup(res.tasks, href).ID ELSE ""
        put(id, v) == [i \in DOMAIN lastSet \cup {id} |-> IF i = id THEN v ELSE lastSet[i]]
    IN  IF res.err # Nil THEN lastSet
        ELSE IF op = "Create" THEN put(res.task.ID, Settled(Enabled))
        ELSE IF op = "Delete"
             THEN [i \in {j \in DOMAIN lastSet : Href(j) # href} |-> lastSet[i]]
        ELSE IF op \in {"Enable", "Disable"}
             THEN put(own, [set |-> IF op = "Enable" THEN Enabled ELSE Disabled,
                            half |-> FALSE, raced |-> overlap])
        ELSE lastSet

\* lastSet after the Update u returned res
LastSetUpdate(u, res) ==
    LET id == u.task.ID
        put(v) == [i \in DOMAIN lastSet \cup {id} |-> IF i = id THEN v ELSE lastSet[i]]
        overlap == u.dirty \/ \E v \in updating \ {u} : v.href = u.href
    IN  IF res.err = Nil THEN put([set |-> Enabled, half |-> FALSE, raced |-> overlap])
        ELSE IF ~Exists(res.tasks, u.href) THEN lastSet
        ELSE IF id \in DOMAIN lastSet
             THEN put([lastSet[id] EXCEPT !.half = TRUE, !.raced = @ \/ overlap])
        ELSE lastSet

\* An Update between its two calls is disturbed when another invocation
\* changes (or removes) the task it is updating.
Disturb(us, ts) ==
    {IF \/ Exists(tasks, u.href) # Exists(ts, u.href)
        \/ /\ Exists(tasks, u.href)
           /\ Lookup(tasks, u.href) # Lookup(ts, u.href)
     THEN [u EXCEPT !.dirty = TRUE]
     ELSE u : u \in us}

\* An Update between its two calls records the Enable, Disable and Delete
\* invocations that return success on its task meanwhile.
Note(us, op, href, res) ==
    {IF u.href = href /\ res.err = Nil /\ op \in {"Enable", "Disable", "Delete"}
     THEN [u EXCEPT !.between = @ \cup {op}]
     ELSE u : u \in us}

\* a method that makes all its remote calls in one step
Atomic(op, c, arg, gen, href, rule, res) ==
    /\ nops < MaxOps
    /\ nops' = nops + 1
    /\ tasks' = res.tasks
    /\ updating' = Note(Disturb(updating, res.tasks), op, href, res)
    /\ ret' = Return(op, c, arg, gen, rule, FALSE, Before(href), res)
    /\ created' = Created(op, arg, res)
    /\ deleted' = Deleted(op, href, res)
    /\ lastSet' = LastSet(op, href, res)

Create(c, rule, gen, net) ==
    Atomic("Create", c, "", gen, "", rule, CreateOp(tasks, c, rule, gen, net))

Delete(c, href, net) ==
    Atomic("Delete", c, href, NoID, href, EmptyRule, DeleteOp(tasks, c, href, net))

Disable(c, href, net) ==
    Atomic("Disable", c, href, NoID, href, EmptyRule, DisableOp(tasks, c, href, net))

Enable(c, href, net) ==
    Atomic("Enable", c, href, NoID, href, EmptyRule, EnableOp(tasks, c, href, net))

AllStatus(c, net) ==
    Atomic("AllStatus", c, "", NoID, "", EmptyRule, AllStatusOp(tasks, c, net))

Status(c, href, net) ==
    Atomic("Status", c, href, NoID, href, EmptyRule, StatusOp(tasks, c, href, net))

All(c, net) ==
    Atomic("All", c, "", NoID, "", EmptyRule, AllOp(tasks, c, net))

Get(c, id, net) ==
    Atomic("Get", c, id, NoID, Href(id), EmptyRule, GetOp(tasks, c, id, net))

\* Update, first half: generate the script and send disable+apply
UpdateApply(c, href, rule, net) ==
    /\ nops < MaxOps
    /\ Cardinality(updating) < MaxUpdating
    /\ nops' = nops + 1
    /\ LET u == UpdateApplyOp(tasks, c, href, rule, net)
       IN  /\ tasks' = u.res.tasks
           /\ IF u.pending
              THEN /\ updating' = Disturb(updating, u.res.tasks) \cup
                                    {[n |-> nops + 1, c |-> c, href |-> href, rule |-> rule,
                                      script |-> u.script, task |-> u.reply,
                                      calls |-> u.res.calls, dirty |-> FALSE,
                                      between |-> {}, before |-> Before(href)]}
                   /\ ret' = NoReturn
              ELSE /\ updating' = Disturb(updating, u.res.tasks)
                   /\ ret' = Return("Update", c, href, NoID, rule, FALSE, Before(href), u.res)
    /\ UNCHANGED <<created, deleted, lastSet>>

\* Update, second half: send Enable and return
UpdateEnable(u, net) ==
    /\ u \in updating
    /\ LET res == UpdateEnableOp(tasks, u.c, u.href, u.rule, u.script, u.task, u.calls, net)
       IN  /\ tasks' = res.tasks
           /\ updating' = Disturb(updating \ {u}, res.tasks)
           /\ ret' = [Return("Update", u.c, u.href, NoID, u.rule, u.dirty, u.before, res)
                         EXCEPT !.between = u.between]
           /\ lastSet' = LastSetUpdate(u, res)
    /\ UNCHANGED <<created, deleted, nops>>

Next ==
    \/ \E c \in Clients : \E rule \in Rules, gen \in IDResults, net \in NetOutcomes(c) :
          Create(c, rule, gen, net)
    \/ \E c \in Clients : \E href \in Hrefs, net \in NetOutcomes(c) : Delete(c, href, net)
    \/ \E c \in Clients : \E href \in Hrefs, net \in NetOutcomes(c) : Disable(c, href, net)
    \/ \E c \in Clients : \E href \in Hrefs, net \in NetOutcomes(c) : Enable(c, href, net)
    \/ \E c \in Clients : \E net \in NetOutcomes(c) : AllStatus(c, net)
    \/ \E c \in Clients : \E href \in Hrefs, net \in NetOutcomes(c) : Status(c, href, net)
    \/ \E c \in Clients : \E net \in NetOutcomes(c) : All(c, net)
    \/ \E c \in Clients : \E id \in TaskIDs, net \in NetOutcomes(c) : Get(c, id, net)
    \/ \E c \in Clients : \E href \in Hrefs, rule \in Rules, net \in NetOutcomes(c) :
          UpdateApply(c, href, rule, net)
    \/ \E u \in updating, net \in BOOLEAN : UpdateEnable(u, net)

Spec == Init /\ [][Next]_vars

\* ------------------------------------------------------------ properties
\* the task a reference names now, NoKapaTask if none
Now(href) == IF Exists(tasks, href) THEN Lookup(tasks, href) ELSE NoKapaTask

\* what the first call of Update(ref, rule) applies to a task
Applied(t, rule) ==
    /\ t.TICKscript = Generate(rule)
    /\ t.DBRPs = <<DBRP(rule.Query.Database, rule.Query.RetentionPolicy)>>
    /\ t.Type = toTask(rule.Query)

\* the two remote calls of Update, as they appear in a call log
IsApplyCall(k, href, rule) ==
    /\ k.call = "UpdateTask"
    /\ k.target = href
    /\ k.opts = UpdateTaskOptions(toTask(rule.Query),
                    <<DBRP(rule.Query.Database, rule.Query.RetentionPolicy)>>,
                    Generate(rule), Disabled)

IsEnableCall(k, href) ==
    /\ k.call = "UpdateTask"
    /\ k.target = href
    /\ k.opts = UpdateTaskOptions("", <<>>, "", Enabled)

\* the step just taken returned from an Update whose first call succeeded
\* and whose Enable call failed
EnableFailed ==
    /\ ret.op = "Update"
    /\ Len(ret.calls) = 2
    /\ ret.calls[1].ok
    /\ ~ret.calls[2].ok

\* C1: when the disable+apply call of Update succeeds and the Enable call
\* fails, Update returns the engine's error and no Task, and, unless another
\* invocation acted on the task in between, the task is left disabled with
\* the new script, bindings and kind applied.
C1_EnableFailureLeavesDisabled ==
    EnableFailed =>
        /\ ret.err = ErrEngine
        /\ ret.task = NoTask
        /\ ~ret.dirty =>
              /\ Exists(tasks, ret.arg)
              /\ Now(ret.arg).Status = Disabled
              /\ Applied(Now(ret.arg), ret.in)

C1_Witness ==
    /\ EnableFailed
    /\ ~ret.dirty
    /\ ret.before.Status = Enabled
    /\ ret.before.TICKscript # Generate(ret.in)

\* the step returned from an Update whose first remote call failed
ApplyFailed(r) ==
    /\ r.op = "Update"
    /\ r.calls # <<>>
    /\ ~r.calls[1].ok

\* C2: when the disable+apply call of Update fails, Update returns the
\* engine's error, has issued no Enable call, and the step leaves every task
\* of the engine as it was.
C2_ApplyFailureChangesNothing ==
    [][ApplyFailed(ret') =>
          /\ ret'.err = ErrEngine
          /\ ret'.task = NoTask
          /\ Len(ret'.calls) = 1
          /\ IsApplyCall(ret'.calls[1], ret'.arg, ret'.in)
          /\ tasks' = tasks]_vars

C2_Witness ==
    /\ ApplyFailed(ret)
    /\ Exists(tasks, ret.arg)
    /\ ~Applied(Now(ret.arg), ret.in)

\* C3: Update issues Enable only after its disable+apply call has succeeded,
\* and when both calls succeed and no other invocation acted on the task in
\* between, the task ends enabled with the script, bindings and kind of the
\* rule, whatever its status was before.
C3_EnableAfterApply ==
    /\ \A u \in updating :
          /\ Len(u.calls) = 1
          /\ u.calls[1].ok
          /\ IsApplyCall(u.calls[1], u.href, u.rule)
    /\ ret.op = "Update" =>
          /\ Len(ret.calls) <= 2
          /\ Len(ret.calls) >= 1 => IsApplyCall(ret.calls[1], ret.arg, ret.in)
          /\ Len(ret.calls) = 2 => ret.calls[1].ok /\ IsEnableCall(ret.calls[2], ret.arg)
          /\ ret.err = Nil => Len(ret.calls) = 2 /\ ret.calls[2].ok
          /\ (ret.err = Nil /\ ~ret.dirty) =>
                /\ Exists(tasks, ret.arg)
                /\ Now(ret.arg).Status = Enabled
                /\ Applied(Now(ret.arg), ret.in)

C3_Witness ==
    /\ ret.op = "Update"
    /\ ret.err = Nil
    /\ ~ret.dirty
    /\ ret.before.Status = Disabled
    /\ ~Applied(ret.before, ret.in)

\* the identifiers that are Prefix followed by a token of the generator
Prefixed == {Prefix \o t : t \in Tokens}

\* C4: the identifier Create passes to the engine's create call, and the
\* Task.ID and Rule.ID it returns, are Prefix followed by the token the ID
\* generator returned; no invocation passes an identifier without Prefix to
\* a create call.
C4_CreatedIDsCarryPrefix ==
    /\ \A i \in DOMAIN ret.calls :
          ret.calls[i].call = "CreateTask" =>
              /\ ret.op = "Create"
              /\ ret.calls[i].opts.ID = Prefix \o ret.gen.id
              /\ ret.calls[i].opts.ID \in Prefixed
    /\ \A u \in updating : \A i \in DOMAIN u.calls : u.calls[i].call # "CreateTask"
    /\ (ret.op = "Create" /\ ret.err = Nil) =>
          /\ ret.task.ID = Prefix \o ret.gen.id
          /\ ret.task.Rule.ID = ret.task.ID
          /\ ret.task.ID \in Prefixed
          /\ ret.task.ID \in DOMAIN tasks
    /\ created \subseteq Prefixed

C4_Witness ==
    /\ ret.op = "Create"
    /\ ret.err = Nil
    /\ ret.gen.id \in Tokens
    /\ ret.calls[1].call = "CreateTask"

\* C5: when the ID generator fails in Create, or the script generator fails
\* in Create or Update, the method returns that error, has issued no remote
\* call, and the step leaves every task of the engine as it was.
C5_GeneratorFailureMakesNoCall ==
    [][/\ (ret'.op = "Create" /\ kapaClientOK(ret'.c) /\ ret'.gen.err # Nil) =>
             /\ ret'.err = ret'.gen.err
             /\ ret'.task = NoTask
             /\ ret'.calls = <<>>
             /\ tasks' = tasks
       /\ (/\ ret'.op \in {"Create", "Update"}
           /\ kapaClientOK(ret'.c)
           /\ ret'.gen.err = Nil
           /\ ~GenerateOK(ret'.in)) =>
             /\ ret'.err = ErrGenerateScript
             /\ ret'.task = NoTask
             /\ ret'.calls = <<>>
             /\ tasks' = tasks]_vars

C5_Witness ==
    /\ ret.op = "Update"
    /\ ret.err = ErrGenerateScript
    /\ ret.before # NoKapaTask
    /\ ret.calls = <<>>

\* the step just taken returned from op after the engine answered its
\* (first) remote call
Answered(op) == ret.op = op /\ ret.calls # <<>> /\ ret.calls[1].ok

\* the step just taken returned from op after its remote call failed
Unanswered(op) == ret.op = op /\ ret.calls # <<>> /\ ~ret.calls[1].ok

\* a rule built from a task's identifier and raw script alone
Degraded(rule, task) ==
    rule = [EmptyRule EXCEPT !.ID = task.ID, !.Name = task.ID, !.TICKScript = task.TICKscript]

\* a rule reversed from a task's script, with the task's identifier
Reconstructed(rule, task) ==
    /\ ReverseOK(task.TICKscript)
    /\ rule = [Reverse(task.TICKscript) EXCEPT !.ID = task.ID, !.TICKScript = task.TICKscript]

\* C6 as stated: after a successful Create returned id (and no Delete of it
\* since), Get(id) succeeds and returns a rule whose ID is id.
C6_Original ==
    (ret.op = "Get" /\ kapaClientOK(ret.c) /\ ret.arg \in created) =>
        /\ ret.err = Nil
        /\ ret.rule.ID = ret.arg

\* C6 (amended): after a successful Create returned id (and no Delete of it
\* since), the task exists, and a Get(id) whose fetch the engine answers
\* succeeds and returns a rule whose ID is id, whether the script reverses or
\* not; a Get(id) whose fetch fails returns ErrAlertNotFound.
C6_CreateThenGet ==
    /\ created \subseteq DOMAIN tasks
    /\ (ret.op = "Get" /\ kapaClientOK(ret.c) /\ ret.arg \in created) =>
          /\ Len(ret.calls) = 1
          /\ ret.before.ID = ret.arg
          /\ ret.calls[1].ok =>
                /\ ret.err = Nil
                /\ ret.rule.ID = ret.arg
                /\ ret.rule.TICKScript = ret.before.TICKscript
          /\ ~ret.calls[1].ok => ret.err = ErrAlertNotFound

C6_Witness ==
    /\ Answered("Get")
    /\ ret.arg \in created
    /\ ret.err = Nil
    /\ ReverseOK(ret.rule.TICKScript)
    /\ ret.rule.ID = ret.arg

\* C7: when Get fetches the task and its script does not reverse, Get
\* returns no error and a rule whose ID and Name are the task's identifier
\* and whose script is the task's script verbatim; Get and All never return
\* an error once the engine has answered their call.
C7_ReverseFailureDegrades ==
    /\ (Answered("Get") /\ ~ReverseOK(ret.before.TICKscript)) =>
          /\ ret.err = Nil
          /\ ret.rule.ID = ret.before.ID
          /\ ret.rule.Name = ret.before.ID
          /\ ret.rule.TICKScript = ret.before.TICKscript
          /\ Degraded(ret.rule, ret.before)
    /\ (Answered("Get") \/ Answered("All")) => ret.err = Nil

C7_Witness ==
    /\ Answered("Get")
    /\ ~ReverseOK(ret.before.TICKscript)
    /\ ret.before.TICKscript # ""
    /\ ret.rule.Name = ret.arg

\* C8: when the fetch of Get fails, Get returns ErrAlertNotFound and an
\* empty rule; Get returns a rule (degraded or not) only when the fetch
\* succeeded.
C8_FetchFailureIsNotFound ==
    /\ Unanswered("Get") =>
          /\ ret.err = ErrAlertNotFound
          /\ ret.rule = EmptyRule
    /\ (ret.op = "Get" /\ ret.rule # EmptyRule) =>
          /\ Answered("Get")
          /\ ret.err = Nil

C8_Witness ==
    /\ Unanswered("Get")
    /\ ret.before # NoKapaTask
    /\ ~ReverseOK(ret.before.TICKscript)
    /\ ret.err = ErrAlertNotFound

\* the tasks of the engine whose script does not reverse
Unparsed == {id \in DOMAIN tasks : ~ReverseOK(tasks[id].TICKscript)}

\* C9: when the list call succeeds, All returns one entry per task of the
\* engine, keyed by task identifier, each with ID equal to its key: a
\* degraded rule for each task whose script does not reverse and a
\* reconstructed rule for each other task.
C9_AllOneEntryPerTask ==
    Answered("All") =>
        /\ ret.err = Nil
        /\ DOMAIN ret.alerts = DOMAIN tasks
        /\ \A id \in DOMAIN tasks :
              /\ ret.alerts[id].ID = id
              /\ ret.alerts[id].TICKScript = tasks[id].TICKscript
              /\ id \in Unparsed => Degraded(ret.alerts[id], tasks[id])
              /\ id \notin Unparsed => Reconstructed(ret.alerts[id], tasks[id])
        /\ Cardinality({id \in DOMAIN ret.alerts : Degraded(ret.alerts[id], tasks[id])})
              = Cardinality(Unparsed)
        /\ Cardinality({id \in DOMAIN ret.alerts : Reconstructed(ret.alerts[id], tasks[id])})
              = Cardinality(DOMAIN tasks) - Cardinality(Unparsed)

C9_Witness ==
    /\ Answered("All")
    /\ Cardinality(DOMAIN tasks) = 3
    /\ Cardinality(Unparsed) = 2
    /\ ExternalID \in DOMAIN ret.alerts
    /\ \E id \in DOMAIN ret.alerts : Reconstructed(ret.alerts[id], tasks[id])

\* C10: AllStatus asks the engine's list call for the status field only
\* and, when the list succeeds, returns one entry per task of the engine,
\* keyed by task identifier, holding that task's status.
C10_AllStatusMapsEveryTask ==
    ret.op = "AllStatus" =>
        /\ \A i \in DOMAIN ret.calls :
              /\ ret.calls[i].call = "ListTasks"
              /\ ret.calls[i].opts.Fields = <<"status">>
        /\ Answered("AllStatus") =>
              /\ ret.err = Nil
              /\ DOMAIN ret.statuses = DOMAIN tasks
              /\ \A id \in DOMAIN tasks : ret.statuses[id] = tasks[id].Status

C10_Witness ==
    /\ Answered("AllStatus")
    /\ \E id \in DOMAIN ret.statuses : ret.statuses[id] = Disabled
    /\ \E id \in DOMAIN ret.statuses : ret.statuses[id] = Enabled

\* the status Enable and Disable set
StatusOf(op) == IF op = "Enable" THEN Enabled ELSE Disabled

KindOf(rule) == IF rule.Query.RawText = "" THEN StreamTask ELSE BatchTask

\* C12: the task kind Create and the disable+apply call of Update send is
\* stream exactly when the rule's raw query text is empty and batch
\* otherwise, and the engine task takes that kind: an Update whose rule
\* differs in this from the task's kind changes the kind.
C12_KindFollowsRawText ==
    /\ \A i \in DOMAIN ret.calls :
          /\ ret.calls[i].call = "CreateTask" => ret.calls[i].opts.Type = KindOf(ret.in)
          /\ (ret.op = "Update" /\ i = 1) => ret.calls[i].opts.Type = KindOf(ret.in)
    /\ \A u \in updating : u.calls[1].opts.Type = KindOf(u.rule)
    /\ (ret.op = "Create" /\ ret.err = Nil) => tasks[ret.task.ID].Type = KindOf(ret.in)
    /\ (Answered("Update") /\ ~ret.dirty) =>
          /\ Now(ret.arg).Type = KindOf(ret.in)
          /\ (ret.before.Type = StreamTask /\ ret.in.Query.RawText # "") =>
                Now(ret.arg).Type = BatchTask
          /\ (ret.before.Type = BatchTask /\ ret.in.Query.RawText = "") =>
                Now(ret.arg).Type = StreamTask

C12_Witness ==
    /\ Answered("Update")
    /\ ret.err = Nil
    /\ ~ret.dirty
    /\ ret.before.Type = StreamTask
    /\ ret.in.Query.RawText = "SELECT 1"
    /\ Now(ret.arg).Type = BatchTask

\* the step just taken returned from an answered Status of a task on which
\* no Update is in progress and no methods have overlapped since the last
\* successful state-changing method
SettledStatus ==
    /\ Answered("Status")
    /\ \A u \in updating : u.href # ret.arg
    /\ ret.before.ID \in DOMAIN lastSet
    /\ ~lastSet[ret.before.ID].raced

\* C13 as stated: Status returns the status set by the most recent
\* successful state-changing method on the task.
C13_Original ==
    SettledStatus => ret.status = lastSet[ret.before.ID].set

\* C13 (amended): Status returns the status set by the most recent
\* successful state-changing method on the task (enabled after Create,
\* Enable or Update, disabled after Disable), except that it returns
\* disabled when an Update has since failed in its Enable call after its
\* disable+apply call succeeded; Status changes no engine state.
C13_StatusReportsLastSet ==
    [][ret'.op = "Status" =>
          /\ tasks' = tasks
          /\ SettledStatus' =>
                /\ ret'.err = Nil
                /\ ret'.status = (IF lastSet'[ret'.before.ID].half
                                  THEN Disabled
                                  ELSE lastSet'[ret'.before.ID].set)]_vars

C13_Witness ==
    /\ SettledStatus
    /\ lastSet[ret.before.ID].half
    /\ lastSet[ret.before.ID].set = Enabled
    /\ ret.status = Disabled

\* C14: after a successful Delete of an existing task the task is gone from
\* the engine: until it is created again, Get of its identifier fails with
\* ErrAlertNotFound, the results of All and AllStatus do not contain it, and
\* another Delete of it returns the engine's error for the absent task and
\* changes nothing.
C14_DeletedTaskIsGone ==
    /\ deleted \cap DOMAIN tasks = {}
    /\ (ret.op = "Delete" /\ ret.err = Nil) =>
          /\ ret.before # NoKapaTask
          /\ ret.before.ID \in deleted
          /\ ~Exists(tasks, ret.arg)
    /\ (ret.op = "Get" /\ kapaClientOK(ret.c) /\ ret.arg \in deleted) =>
          /\ ret.err = ErrAlertNotFound
          /\ ret.rule = EmptyRule
    /\ Answered("All") => DOMAIN ret.alerts \cap deleted = {}
    /\ Answered("AllStatus") => DOMAIN ret.statuses \cap deleted = {}
    /\ (ret.op = "Delete" /\ kapaClientOK(ret.c) /\ ret.before = NoKapaTask) =>
          /\ ret.err = ErrEngine
          /\ Len(ret.calls) = 1
          /\ ~ret.calls[1].ok

C14_Witness ==
    /\ ret.op = "Get"
    /\ kapaClientOK(ret.c)
    /\ ret.arg \in deleted
    /\ ret.arg = EarlierTask.ID
    /\ ret.err = ErrAlertNotFound

\* a second Delete of a deleted task has returned
C14_SecondDelete ==
    /\ ret.op = "Delete"
    /\ kapaClientOK(ret.c)
    /\ \E id \in deleted : Href(id) = ret.arg
    /\ ret.err = ErrEngine

\* the remote call each one-call method issues
CallOf(op) ==
    CASE op = "Create" -> "CreateTask"
      [] op = "Delete" -> "DeleteTask"
      [] op \in {"Enable", "Disable"} -> "UpdateTask"
      [] op \in {"Status", "Get"} -> "Task"
      [] op \in {"All", "AllStatus"} -> "ListTasks"
      [] OTHER -> "none"

\* C15: no method retries: Create, Delete, Enable, Disable, Status,
\* AllStatus, Get and All issue at most one remote call, Update at most two
\* (the disable+apply call, then at most one Enable call), and a failed
\* remote call is the last call of its invocation, which returns an error.
C15_NoRetry ==
    /\ ret.op \notin {"none", "Update"} =>
          /\ Len(ret.calls) <= 1
          /\ \A i \in DOMAIN ret.calls : ret.calls[i].call = CallOf(ret.op)
    /\ ret.op = "Update" =>
          /\ Len(ret.calls) <= 2
          /\ \A i \in DOMAIN ret.calls :
                /\ ret.calls[i].call = "UpdateTask"
                /\ ret.calls[i].opts.Status = (IF i = 1 THEN Disabled ELSE Enabled)
    /\ \A i \in DOMAIN ret.calls :
          ~ret.calls[i].ok => (i = Len(ret.calls) /\ ret.err # Nil /\ ret.task = NoTask)
    /\ \A u \in updating : Len(u.calls) = 1 /\ u.calls[1].ok

C15_Witness ==
    /\ Unanswered("Enable")
    /\ ret.before.Status = Disabled
    /\ Now(ret.arg).Status = Disabled
    /\ ret.err = ErrEngine

\* the task reference the step just taken acted on: the argument of the
\* invocation that returned, or of the Update that made its first call
StepTarget ==
    IF ret'.op # "none" THEN ret'.arg
    ELSE IF \E u \in updating' : u.n = nops'
    THEN (CHOOSE u \in updating' : u.n = nops').href
    ELSE ""

\* an engine holding nothing but the task href refers to
Only(ts, href) == [id \in {i \in DOMAIN ts : Href(i) = href} |-> ts[id]]

\* the step just taken did to its target what the same method does in an
\* engine where the target is the only task
ActsAlone ==
    LET x == StepTarget
        alone == Only(tasks, x)
        same(r) == r.tasks = Only(tasks', x) /\ r.err = ret'.err /\ r.task = ret'.task
    IN  CASE ret'.op = "Enable" -> \E net \in BOOLEAN : same(EnableOp(alone, ret'.c, x, net))
          [] ret'.op = "Disable" -> \E net \in BOOLEAN : same(DisableOp(alone, ret'.c, x, net))
          [] ret'.op = "Delete" -> \E net \in BOOLEAN : same(DeleteOp(alone, ret'.c, x, net))
          [] ret'.op = "Update" /\ Len(ret'.calls) < 2 ->
                \E net \in BOOLEAN :
                    LET a == UpdateApplyOp(alone, ret'.c, x, ret'.in, net)
                    IN  ~a.pending /\ same(a.res)
          [] ret'.op = "Update" /\ Len(ret'.calls) = 2 ->
                \E u \in updating, net \in BOOLEAN :
                    /\ u.href = x
                    /\ same(UpdateEnableOp(alone, u.c, x, u.rule, u.script, u.task, u.calls, net))
          [] ret'.op = "none" ->
                \E u \in updating' :
                    /\ u.n = nops'
                    /\ LET a == UpdateApplyOp(alone, u.c, x, u.rule, TRUE)
                       IN  a.pending /\ a.res.tasks = Only(tasks', x) /\ a.reply = u.task
          [] OTHER -> TRUE

\* C16: operations on different tasks do not interfere: every remote call of
\* an Update, Enable, Disable or Delete on task X, however interleaved with
\* the calls of other invocations, leaves the status, script, bindings and
\* existence of every other task unchanged, and does to X what it does when
\* X is the only task.
C16_OtherTasksUntouched ==
    [][ret'.op \in {"Update", "Enable", "Disable", "Delete", "none"} =>
          /\ DOMAIN tasks' \subseteq DOMAIN tasks
          /\ \A id \in DOMAIN tasks :
                Href(id) # StepTarget => (id \in DOMAIN tasks' /\ tasks'[id] = tasks[id])
          /\ \A u \in updating : u.href # StepTarget => u \in updating'
          /\ ActsAlone]_vars

\* a Disable of one task has just succeeded while an Update of another task
\* is between its two calls
C16_Witness ==
    /\ ret.op = "Disable"
    /\ ret.err = Nil
    /\ \E u \in updating :
          /\ u.href # ret.arg
          /\ ~u.dirty
          /\ Exists(tasks, u.href)
          /\ Now(u.href).Status = Disabled
    /\ Now(ret.arg).Status = Disabled

\* an Update has just returned, and a Disable of the same task returned
\* success between its two remote calls
DisabledMeanwhile == ret.op = "Update" /\ "Disable" \in ret.between

TaskIn(ts, href) == IF Exists(ts, href) THEN Lookup(ts, href) ELSE NoKapaTask

\* C18: a successful Update returns with the task enabled, and, when nothing
\* else changed the task during the Update, with the engine's script equal to
\* the TICKScript of the returned Task.  Among concurrent Updates of one task
\* the engine's script is that of the disable+apply call applied last: each
\* such call installs its own script, whatever other Updates are in
\* progress, and the Enable call of a returning Update leaves the script as
\* it finds it.
C18_UpdateDeploysItsScript ==
    [][/\ (ret'.op = "Update" /\ ret'.err = Nil) =>
             /\ TaskIn(tasks', ret'.arg).Status = Enabled
             /\ TaskIn(tasks', ret'.arg).TICKscript = TaskIn(tasks, ret'.arg).TICKscript
             /\ ret'.task.TICKScript = Generate(ret'.in)
             /\ ~ret'.dirty => TaskIn(tasks', ret'.arg).TICKscript = ret'.task.TICKScript
       /\ ret'.op = "none" =>
             \A u \in updating' :
                 u.n = nops' =>
                    /\ u.script = Generate(u.rule)
                    /\ TaskIn(tasks', u.href).TICKscript = u.script
                    /\ TaskIn(tasks', u.href).Status = Disabled]_vars

\* one Update has returned success and enabled the task while another
\* Update of the same task, whose disable+apply call came later, is still
\* between its two calls: the engine runs the later Update's script
C18_Witness ==
    /\ ret.op = "Update"
    /\ ret.err = Nil
    /\ ret.dirty
    /\ \E u \in updating :
          /\ u.href = ret.arg
          /\ u.script # ret.task.TICKScript
          /\ Now(ret.arg).TICKscript = u.script
          /\ Now(ret.arg).Status = Enabled

\* both of two concurrent Updates of one task have returned success; the one
\* that returned last had made its disable+apply call first
C18_BothReturned ==
    /\ ret.op = "Update"
    /\ ret.err = Nil
    /\ ret.dirty
    /\ updating = {}
    /\ nops = 2
    /\ Now(ret.arg).Status = Enabled
    /\ Now(ret.arg).TICKscript # ret.task.TICKScript

\* C19: All and Get convert a task the same way: in every engine state an
\* answered All holds, for every task of the engine, the very rule an
\* answered Get of that task returns in that state, and an answered Get
\* returns the entry an answered All holds for its task.
C19_AllAgreesWithGet ==
    /\ (ret.op = "All" /\ ret.err = Nil) =>
          /\ DOMAIN ret.alerts = DOMAIN tasks
          /\ \A id \in DOMAIN tasks :
                LET get == GetOp(tasks, ret.c, id, TRUE)
                IN  get.err = Nil /\ ret.alerts[id] = get.rule
    /\ (ret.op = "Get" /\ ret.err = Nil) =>
          LET all == AllOp(tasks, ret.c, TRUE)
          IN  /\ all.err = Nil
              /\ ret.arg \in DOMAIN all.alerts
              /\ all.alerts[ret.arg] = ret.rule

C19_Witness ==
    /\ Answered("All")
    /\ \E id \in DOMAIN ret.alerts : Degraded(ret.alerts[id], tasks[id])
    /\ \E id \in DOMAIN ret.alerts : Reconstructed(ret.alerts[id], tasks[id])

\* every task the step just taken found in the engine is still there as it was
OldTasksKept == \A id \in DOMAIN tasks : id \in DOMAIN tasks' /\ tasks'[id] = tasks[id]

\* C20: the set of engine tasks changes only through Create and Delete.  A
\* successful Create adds exactly one task, under an identifier no task had,
\* and a failed Create adds none; a successful Delete removes the referenced
\* task and no other; a failed Delete removes none; every other step,
\* returning or not, keeps the set of tasks, and every task always carries
\* the identifier it is stored under.
C20_OnlyCreateAndDeleteChangeTheSet ==
    [][/\ (ret'.op = "Create" /\ ret'.err = Nil) =>
             /\ ret'.task.ID \notin DOMAIN tasks
             /\ DOMAIN tasks' = DOMAIN tasks \cup {ret'.task.ID}
             /\ OldTasksKept
       /\ (ret'.op = "Delete" /\ ret'.err = Nil) =>
             /\ ret'.before.ID \in DOMAIN tasks
             /\ Href(ret'.before.ID) = ret'.arg
             /\ DOMAIN tasks' = DOMAIN tasks \ {ret'.before.ID}
             /\ \A id \in DOMAIN tasks' : tasks'[id] = tasks[id]
       /\ (ret'.op \in {"Create", "Delete"} /\ ret'.err # Nil) => tasks' = tasks
       /\ ret'.op \notin {"Create", "Delete"} => DOMAIN tasks' = DOMAIN tasks
       /\ \A id \in DOMAIN tasks' : tasks'[id].ID = id]_vars

\* a successful Create has just added a third task to the engine
C20_Witness ==
    /\ ret.op = "Create"
    /\ ret.err = Nil
    /\ ret.task.ID \in DOMAIN tasks
    /\ Cardinality(DOMAIN tasks) = 3

====
